---- MODULE Spec2Model ----
(***************************************************************************)
(* Keypair of stellar-sdk-adv (src/src/keypair.rs): the factories that     *)
(* build a Keypair from raw bytes or StrKey text, and its accessors        *)
(* (secret_key, public_key, can_sign, sign, verify).                       *)
(*                                                                         *)
(* Byte strings are sequences over 0..255.  Option<T> is a sequence of     *)
(* length 0 (None) or 1 (Some).  A text is a sequence of one-character     *)
(* strings.  The Ed25519 and SHA-512 primitives of the nacl and            *)
(* ed25519_dalek crates are replaced by deterministic stand-ins with the   *)
(* same shapes (32-byte seed -> 32-byte public key, 64-byte detached       *)
(* signature, 64-byte digest); nothing below relies on their values, only  *)
(* on determinism and on a signature verifying under exactly the key and   *)
(* message it was made for.                                                *)
(***************************************************************************)
EXTENDS Integers, Sequences, FiniteSets, TLC

VARIABLES kp, ret, origin

vars == <<kp, ret, origin>>

----------------------------------------------------------------------------
(* Bounds of the model *)

\* seeds and public keys are tried with lengths KEY_LEN - LenSlack .. KEY_LEN + LenSlack
LenSlack == 1
\* longest nonce tried by the additive-nonce factory is KEY_LEN + NonceOver
NonceOver == 1
\* longest message signed or verified
MaxMsgLen == 1

----------------------------------------------------------------------------
(* Program constants *)

\* keypair.rs:19, 39, 65, 98: a seed and a public key are 32 bytes
KEY_LEN == 32
\* 64-byte detached signature, 64-byte secret key (seed followed by public key)
SIGNATURE_LENGTH == 64
\* u8 arithmetic
BYTE == 256

None == <<>>
Some(v) == <<v>>
is_some(o) == Len(o) = 1
unwrap(o) == o[1]

Ok(v) == [kind |-> "Ok", val |-> v, err |-> "", calls |-> <<>>]
Err(msg) == [kind |-> "Err", val |-> <<>>, err |-> msg, calls |-> <<>>]
\* an index out of bounds or an unwrap of an Err aborts the thread
Panic(msg) == [kind |-> "Panic", val |-> <<>>, err |-> msg, calls |-> <<>>]
is_ok(r) == r.kind = "Ok"

Fill(b, step, n) == [i \in 1..n |-> (b + step * (i - 1)) % BYTE]

----------------------------------------------------------------------------
(* StrKey: version byte, payload, CRC16-XMODEM (little endian), base 32 *)

VERSION_ED25519_PUBLIC_KEY == 48
VERSION_ED25519_SECRET_SEED == 144
CRC_POLY == 4129
CRC_TOP == 32768
CRC_MOD == 65536

Alphabet ==
  << "A", "B", "C", "D", "E", "F", "G", "H", "I", "J", "K", "L", "M",
     "N", "O", "P", "Q", "R", "S", "T", "U", "V", "W", "X", "Y", "Z",
     "2", "3", "4", "5", "6", "7" >>

RECURSIVE Xor(_, _)
Xor(a, b) ==
  IF a = 0 THEN b
  ELSE IF b = 0 THEN a
  ELSE ((a + b) % 2) + 2 * Xor(a \div 2, b \div 2)

RECURSIVE CrcShift(_, _)
CrcShift(crc, n) ==
  IF n = 0 THEN crc
  ELSE CrcShift(IF crc >= CRC_TOP
                THEN Xor((crc * 2) % CRC_MOD, CRC_POLY)
                ELSE (crc * 2) % CRC_MOD, n - 1)

RECURSIVE Crc16From(_, _)
Crc16From(crc, bytes) ==
  \* the u16 range test also makes each step's value be computed before the next
  IF bytes = <<>> \/ crc \notin 0..(CRC_MOD - 1) THEN crc
  ELSE Crc16From(CrcShift(Xor(crc, bytes[1] * BYTE), 8), Tail(bytes))

calculate_checksum(bytes) ==
  LET crc == Crc16From(0, bytes) IN << crc % BYTE, crc \div BYTE >>

Bit(bytes, j) ==
  IF j \div 8 + 1 > Len(bytes) THEN 0
  ELSE (bytes[j \div 8 + 1] \div (2 ^ (7 - (j % 8)))) % 2

Base32Encode(bytes) ==
  LET n == (8 * Len(bytes) + 4) \div 5
      Sym(k) == 16 * Bit(bytes, 5 * k) + 8 * Bit(bytes, 5 * k + 1)
                + 4 * Bit(bytes, 5 * k + 2) + 2 * Bit(bytes, 5 * k + 3)
                + Bit(bytes, 5 * k + 4)
  IN [k \in 1..n |-> Alphabet[Sym(k - 1) + 1]]

SymOf(c) == (CHOOSE i \in 1..Len(Alphabet) : Alphabet[i] = c) - 1

Base32Decode(text) ==
  LET n == (5 * Len(text)) \div 8
      TBit(j) == (SymOf(text[j \div 5 + 1]) \div (2 ^ (4 - (j % 5)))) % 2
      Byte(k) == 128 * TBit(8 * k) + 64 * TBit(8 * k + 1) + 32 * TBit(8 * k + 2)
                 + 16 * TBit(8 * k + 3) + 8 * TBit(8 * k + 4)
                 + 4 * TBit(8 * k + 5) + 2 * TBit(8 * k + 6) + TBit(8 * k + 7)
  IN [k \in 1..n |-> Byte(k - 1)]

encode_check(version, data) ==
  LET payload == <<version>> \o data
  IN Base32Encode(payload \o calculate_checksum(payload))

decode_check(version, text) ==
  LET decoded == Base32Decode(text)
      n == Len(decoded)
  IN IF n # KEY_LEN + 3 THEN Err("InvalidLength")
     ELSE IF decoded[1] # version THEN Err("InvalidVersion")
     ELSE IF SubSeq(decoded, n - 1, n) # calculate_checksum(SubSeq(decoded, 1, n - 2))
          THEN Err("InvalidChecksum")
     ELSE Ok(SubSeq(decoded, 2, n - 2))

encode_ed25519_public_key(data) == encode_check(VERSION_ED25519_PUBLIC_KEY, data)
encode_ed25519_secret_seed(data) == encode_check(VERSION_ED25519_SECRET_SEED, data)
decode_ed25519_public_key(text) == decode_check(VERSION_ED25519_PUBLIC_KEY, text)
decode_ed25519_secret_seed(text) == decode_check(VERSION_ED25519_SECRET_SEED, text)

\* the seed and the public key of the tests of keypair.rs
TestSeed ==
  << 51, 206, 109, 30, 11, 99, 166, 15, 102, 215, 197, 194, 101, 4, 33, 88,
     167, 62, 124, 148, 124, 131, 228, 107, 187, 220, 50, 30, 58, 52, 97, 84 >>
TestSeedText ==
  << "S","A","Z","4","4","3","I","6","B","N","R","2","M","D","3","G","2","7","C",
     "4","E","Z","I","E","E","F","M","K","O","P","T","4","S","R","6","I","H","Z",
     "D","L","X","P","O","D","E","H","R","2","G","R","Q","V","I","C","7","R" >>
TestPk ==
  << 4, 6, 23, 86, 58, 149, 9, 226, 167, 168, 54, 40, 178, 180, 59, 124, 106,
     5, 115, 15, 222, 20, 192, 191, 219, 126, 9, 137, 24, 2, 11, 65 >>
TestPkText ==
  << "G","A","C","A","M","F","2","W","H","K","K","Q","T","Y","V","H","V","A","3",
     "C","R","M","V","U","H","N","6","G","U","B","L","T","B","7","P","B","J","Q",
     "F","7","3","N","7","A","T","C","I","Y","A","I","F","U","C","T","6","B" >>

----------------------------------------------------------------------------
(* Stand-ins for the primitives of the nacl and ed25519_dalek crates *)

\* nacl::sign::generate_keypair: a 32-byte seed gives the 32-byte public key and
\* the 64-byte secret key seed || pkey.  The byte map is a bijection.
generate_keypair(seed) ==
  LET pkey == [i \in 1..KEY_LEN |-> (5 * seed[KEY_LEN + 1 - i] + 7 * i + 1) % BYTE]
  IN [pkey |-> pkey, skey |-> seed \o pkey]

\* the seed whose public key is pk
SeedOfPk(pk) ==
  [j \in 1..KEY_LEN |->
     (205 * (pk[KEY_LEN + 1 - j] + 2 * BYTE - 7 * (KEY_LEN + 1 - j) - 1)) % BYTE]

RECURSIVE WeightedSum(_, _, _)
WeightedSum(data, j, w) ==
  IF j > Len(data) THEN 0
  ELSE ((2 * (j + w) + 1) * data[j] + WeightedSum(data, j + 1, w)) % BYTE

\* nacl::sign::signature: the detached 64-byte signature of data under the
\* 64-byte secret key; an error for a secret key of another length
signature(data, skey) ==
  IF Len(skey) # SIGNATURE_LENGTH THEN Err("bad secret key size")
  ELSE LET d == WeightedSum(data, 1, 0)
       IN Ok([i \in 1..SIGNATURE_LENGTH |->
                IF i <= KEY_LEN
                THEN (skey[i] + 3 * d + i) % BYTE
                ELSE (3 * skey[i - KEY_LEN] + d + Len(data) + i) % BYTE])

\* nacl::sign::verify returns Result<bool, NaclError>: an error for a signature
\* or a public key of the wrong size, and otherwise Ok of the verdict.  A
\* signature verifies under exactly the public key of the seed that made it
\* and for exactly the message it was made for.
nacl_verify(sig, message, pkey) ==
  IF Len(sig) # SIGNATURE_LENGTH THEN Err("bad signature size")
  ELSE IF Len(pkey) # KEY_LEN THEN Err("bad public key size")
  ELSE Ok(sig = signature(message, SeedOfPk(pkey) \o pkey).val)

\* Sha512: a 64-byte digest of the input
Sha512(input) ==
  [i \in 1..SIGNATURE_LENGTH |-> (WeightedSum(input, 1, i) + 17 * i + Len(input)) % BYTE]

\* Vec::append(dst, src): moves every element of src to the end of dst and
\* leaves src empty
append(dst, src) == [dst |-> dst \o src, src |-> <<>>]

----------------------------------------------------------------------------
(* Keypair: struct { public_key, secret_key: Option, secret_seed: Option } *)

\* Self { public_key, secret_key, secret_seed }
Keypair(public_key, secret_key, secret_seed) ==
  [public_key |-> public_key, secret_key |-> secret_key, secret_seed |-> secret_seed]

\* a result with the primitive calls made on the way to it, oldest first
Called(calls, r) == [r EXCEPT !.calls = calls \o @]

\* new_from_secret_key that appends the seed itself, not a clone: the append
\* drains it before it is stored
new_from_secret_key_drained(secret_seed) ==
  IF Len(secret_seed) # KEY_LEN THEN Err("secret_key length is invalid")
  ELSE LET keypair == generate_keypair(secret_seed)
           pk == keypair.pkey
           a1 == append(<<>>, secret_seed)
           a2 == append(a1.dst, pk)
       IN Called(<<"generate_keypair">>,
                 Ok(Keypair(keypair.pkey, Some(a2.dst), Some(a1.src))))

new_from_secret_key(secret_seed) ==
  IF Len(secret_seed) # KEY_LEN THEN Err("secret_key length is invalid")
  ELSE LET cloned_secret_key == secret_seed
           keypair == generate_keypair(secret_seed)
           pk == keypair.pkey
           a1 == append(<<>>, cloned_secret_key)
           a2 == append(a1.dst, pk)
       IN Called(<<"generate_keypair">>,
                 Ok(Keypair(keypair.pkey, Some(a2.dst), Some(secret_seed))))

\* nonced_secret_key[i] = nonced_secret_key[i].overflowing_add(nonce[i]).0 for
\* i in 0..nonce.len(); the vector has 32 elements
AddNonce(seed, nonce) ==
  [i \in 1..Len(seed) |->
     IF i <= Len(nonce) THEN (seed[i] + nonce[i]) % BYTE ELSE seed[i]]

\* new_from_secret_key_with_nonce whose length test is < instead of !=
new_from_secret_key_with_nonce_short_only(secret_seed, nonce) ==
  IF Len(secret_seed) < KEY_LEN THEN Err("secret_key length is invalid")
  ELSE IF Len(nonce) > Len(secret_seed)
       THEN Called(<<"overflowing_add">>, Panic("index out of bounds"))
  ELSE LET nonced_secret_key == AddNonce(secret_seed, nonce)
           keypair == generate_keypair(nonced_secret_key)
           a2 == append(append(<<>>, nonced_secret_key).dst, keypair.pkey)
       IN Called(<<"overflowing_add", "generate_keypair">>,
                 Ok(Keypair(keypair.pkey, Some(a2.dst), Some(<<>>))))

new_from_secret_key_with_nonce(secret_seed, nonce) ==
  IF Len(secret_seed) # KEY_LEN THEN Err("secret_key length is invalid")
  ELSE IF Len(nonce) > Len(secret_seed)
       THEN Called(<<"overflowing_add">>, Panic("index out of bounds"))
  ELSE LET nonced_secret_key == AddNonce(secret_seed, nonce)
           keypair == generate_keypair(nonced_secret_key)
           pk == keypair.pkey
           a1 == append(<<>>, nonced_secret_key)
           a2 == append(a1.dst, pk)
       IN Called(<<"overflowing_add", "generate_keypair">>,
                 \* a1.src is nonced_secret_key after secret_key.append drained it
                 Ok(Keypair(keypair.pkey, Some(a2.dst), Some(a1.src))))

new_from_public_key(public_key) ==
  IF Len(public_key) # KEY_LEN THEN Err("public_key length is invalid")
  ELSE Ok(Keypair(public_key, None, None))

from_raw_ed25519_seed(seed) == new_from_secret_key(seed)

from_raw_ed25519_seed_with_nonce(seed, nonce) ==
  new_from_secret_key_with_nonce(seed, nonce)

from_secret_key(secret) ==
  LET raw_secret == decode_ed25519_secret_seed(secret)
  IN IF ~is_ok(raw_secret) THEN raw_secret
     ELSE from_raw_ed25519_seed(raw_secret.val)

\* from_secret_master_key that mixes the nonce with the additive scheme
from_secret_master_key_additive(secret, nonce) ==
  LET raw_secret == decode_ed25519_secret_seed(secret)
  IN IF ~is_ok(raw_secret) THEN raw_secret
     ELSE from_raw_ed25519_seed_with_nonce(raw_secret.val, nonce)

from_secret_master_key(secret, nonce) ==
  LET raw_secret == decode_ed25519_secret_seed(secret)
  IN IF ~is_ok(raw_secret) THEN raw_secret
     ELSE LET digest == Sha512(raw_secret.val \o nonce)
              seed == SubSeq(digest, 1, KEY_LEN)
          \* SecretKey::from_bytes(seed).unwrap() cannot fail: seed has 32 bytes
          IN Called(<<"Sha512">>, from_raw_ed25519_seed(seed))

\* from_public_key that accepts either version byte
from_public_key_any_version(public_key) ==
  LET pk == decode_ed25519_public_key(public_key)
      decoded == IF is_ok(pk) THEN pk ELSE decode_ed25519_secret_seed(public_key)
  IN IF ~is_ok(decoded) THEN decoded
     ELSE IF Len(decoded.val) # KEY_LEN THEN Err("Invalid Stellar public key")
     ELSE Ok(Keypair(decoded.val, None, None))

\* from_public_key that also keeps the decoded bytes as a seed
from_public_key_keeps_seed(public_key) ==
  LET decoded == decode_ed25519_public_key(public_key)
  IN IF ~is_ok(decoded) THEN decoded
     ELSE IF Len(decoded.val) # KEY_LEN THEN Err("Invalid Stellar public key")
     ELSE Ok(Keypair(decoded.val, None, Some(decoded.val)))

from_public_key(public_key) ==
  LET decoded == decode_ed25519_public_key(public_key)
  IN IF ~is_ok(decoded) THEN decoded
     ELSE IF Len(decoded.val) # KEY_LEN THEN Err("Invalid Stellar public key")
     ELSE Ok(Keypair(decoded.val, None, None))

raw_secret_key(self) == self.secret_seed

raw_public_key(self) == self.public_key

\* secret_key that encodes an empty seed when there is none
secret_key_or_default(self) ==
  Ok(encode_ed25519_secret_seed(
       IF is_some(self.secret_seed) THEN unwrap(self.secret_seed) ELSE <<>>))

secret_key(self) ==
  IF ~is_some(self.secret_seed) THEN Err("no secret_key available")
  ELSE Ok(encode_ed25519_secret_seed(unwrap(self.secret_seed)))

public_key(self) == encode_ed25519_public_key(self.public_key)

can_sign(self) == is_some(self.secret_key)

sign(self, data) ==
  IF ~can_sign(self) THEN Err("cannot sign, no secret_key available")
  ELSE IF is_some(self.secret_key)
       THEN LET m == signature(data, unwrap(self.secret_key))
            IN IF ~is_ok(m) THEN Err("error while signing") ELSE Ok(m.val)
  ELSE Err("error while signing")

verify(self, data, sig) == is_ok(nacl_verify(sig, data, self.public_key))

----------------------------------------------------------------------------
(* Inputs *)

SeedLens == (KEY_LEN - LenSlack)..(KEY_LEN + LenSlack)
NonceLens == {0, 2, KEY_LEN} \cup (KEY_LEN + 1)..(KEY_LEN + NonceOver)

\* raw seeds and raw public keys: 31, 32 and 33 bytes 250, 251, .., 255, 0, 1, ..
\* and the seed of the tests
RawInputs == {Fill(250, 1, n) : n \in SeedLens} \cup {TestSeed}
Seeds32 == {s \in RawInputs : Len(s) = KEY_LEN}
\* nonces 200, 203, ..: adding them to the seeds' bytes passes 255
Nonces == {Fill(200, 3, n) : n \in NonceLens}
\* the nonce texts "0" and "1" of test_from_master_secret_key, the empty text
\* and a text longer than a seed
NonceTexts == {<<>>, <<48>>, <<49>>, Fill(65, 1, KEY_LEN + NonceOver)}

Corrupt(text) == [text EXCEPT ![10] = IF @ = "A" THEN "B" ELSE "A"]
SeedTexts == {encode_ed25519_secret_seed(s) : s \in RawInputs}
PkTexts ==
  {encode_ed25519_public_key(generate_keypair(s).pkey) : s \in Seeds32}
    \cup {encode_ed25519_public_key(s) : s \in RawInputs} \cup {TestPkText}
Texts == SeedTexts \cup PkTexts \cup {Corrupt(TestSeedText), Corrupt(TestPkText)}

MsgBytes == {72, 200}
Msgs == UNION {[1..n -> MsgBytes] : n \in 0..MaxMsgLen}

\* the signature that is valid for m under self's public key
GoodSig(self, m) ==
  signature(m, SeedOfPk(self.public_key) \o self.public_key).val
Mutate(s, pos) == [s EXCEPT ![pos] = (@ + 1) % BYTE]
\* for each message: its valid signature, that signature with its last byte
\* changed, and that signature cut to 63 bytes
SigCandidates(self) ==
  UNION {LET g == GoodSig(self, m)
         IN {g, Mutate(g, SIGNATURE_LENGTH), SubSeq(g, 1, SIGNATURE_LENGTH - 1)} :
         m \in Msgs}

----------------------------------------------------------------------------
(* State: kp is the Keypair the last factory call returned (None when it   *)
(* returned none) and origin is that factory call; ret is the last call,   *)
(* its arguments and what it returned.  A panic ends the run.              *)

Call(op, args, res) == [op |-> op, args |-> args, res |-> res]

Running == ret.res.kind # "Panic"

Construct(op, args, res) ==
  /\ Running
  /\ kp' = IF is_ok(res) THEN Some(res.val) ELSE None
  /\ ret' = Call(op, args, res)
  /\ origin' = Call(op, args, res)

Access(op, args, res) ==
  /\ Running
  /\ is_some(kp)
  /\ ret' = Call(op, args, res)
  /\ UNCHANGED <<kp, origin>>

FromSecretKey ==
  \E secret \in Texts :
    Construct("from_secret_key", <<secret>>, from_secret_key(secret))

FromSecretMasterKey ==
  \E secret \in Texts, nonce \in NonceTexts :
    Construct("from_secret_master_key", <<secret, nonce>>,
              from_secret_master_key(secret, nonce))

FromPublicKey ==
  \E text \in Texts :
    Construct("from_public_key", <<text>>, from_public_key(text))

FromRawEd25519Seed ==
  \E seed \in RawInputs :
    Construct("from_raw_ed25519_seed", <<seed>>, from_raw_ed25519_seed(seed))

FromRawEd25519SeedWithNonce ==
  \E seed \in RawInputs, nonce \in Nonces :
    Construct("from_raw_ed25519_seed_with_nonce", <<seed, nonce>>,
              from_raw_ed25519_seed_with_nonce(seed, nonce))

NewFromPublicKey ==
  \E bytes \in RawInputs :
    Construct("new_from_public_key", <<bytes>>, new_from_public_key(bytes))

\* rand::random::<[u8; 32]>() is any 32 bytes
Random ==
  \E seed \in Seeds32 :
    Construct("random", <<seed>>, new_from_secret_key(seed))

RawSecretKey == Access("raw_secret_key", <<>>, Ok(raw_secret_key(unwrap(kp))))

RawPublicKey == Access("raw_public_key", <<>>, Ok(raw_public_key(unwrap(kp))))

SecretKey == Access("secret_key", <<>>, secret_key(unwrap(kp)))

PublicKey == Access("public_key", <<>>, Ok(public_key(unwrap(kp))))

CanSign == Access("can_sign", <<>>, Ok(can_sign(unwrap(kp))))

Sign ==
  \E data \in Msgs : Access("sign", <<data>>, sign(unwrap(kp), data))

Verify ==
  /\ is_some(kp)
  /\ \E data \in Msgs, sig \in SigCandidates(unwrap(kp)) :
       Access("verify", <<data, sig>>, Ok(verify(unwrap(kp), data, sig)))

Init ==
  /\ kp = None
  /\ ret = Call("none", <<>>, Ok(<<>>))
  /\ origin = Call("none", <<>>, Ok(<<>>))

Next ==
  \/ FromSecretKey
  \/ FromSecretMasterKey
  \/ FromPublicKey
  \/ FromRawEd25519Seed
  \/ FromRawEd25519SeedWithNonce
  \/ NewFromPublicKey
  \/ Random
  \/ RawSecretKey
  \/ RawPublicKey
  \/ SecretKey
  \/ PublicKey
  \/ CanSign
  \/ Sign
  \/ Verify

Spec == Init /\ [][Next]_vars
----------------------------------------------------------------------------
(* Properties *)

Made == is_some(kp)
K == unwrap(kp)
SecretFactories ==
  {"from_secret_key", "from_secret_master_key", "from_raw_ed25519_seed",
   "from_raw_ed25519_seed_with_nonce", "random"}
PublicFactories == {"from_public_key", "new_from_public_key"}

\* C1: a Keypair that holds a secret seed, whichever factory made it, has
\* public_key equal to the public key derived from the stored secret_seed.
C1_PublicKeyDerivedFromStoredSeed ==
  (Made /\ is_some(K.secret_seed)) =>
    /\ Len(unwrap(K.secret_seed)) = KEY_LEN
    /\ K.public_key = generate_keypair(unwrap(K.secret_seed)).pkey

\* C2: in every Keypair a factory returns, secret_key is present iff
\* secret_seed is present iff can_sign() is true; a Keypair made by
\* from_public_key holds neither and cannot sign, one made from a secret seed
\* can sign; and a call of can_sign() returns just that.
C2_SecretPresence ==
  Made =>
    /\ is_some(K.secret_key) <=> is_some(K.secret_seed)
    /\ is_some(K.secret_seed) <=> can_sign(K)
    /\ origin.op = "from_public_key" =>
         (K.secret_key = None /\ K.secret_seed = None /\ ~can_sign(K))
    /\ origin.op \in SecretFactories => can_sign(K)
    /\ ret.op = "can_sign" =>
         (ret.res = Ok(origin.op \in SecretFactories)
            /\ ret.res.val = is_some(K.secret_seed))

\* C2 witness: can_sign() was called on a Keypair made by from_public_key and
\* returned false.
C2_Witness ==
  /\ Made
  /\ origin.op = "from_public_key"
  /\ ret.op = "can_sign"
  /\ ret.res.val = FALSE

\* the mutated seed of the additive-nonce derivation, as the specification
\* states it
MixedSeed(S, N) ==
  [i \in 1..KEY_LEN |-> IF i <= Len(N) THEN (S[i] + N[i]) % BYTE ELSE S[i]]

\* C3: from_raw_ed25519_seed_with_nonce(S, N) with a 32-byte S and a nonce of
\* at most 32 bytes returns a Keypair whose secret_seed is the mutated seed S',
\* whose public_key is derived from S' and whose secret_key is S' followed by
\* that public key.
C3_AdditiveNonceKeypair ==
  (/\ origin.op = "from_raw_ed25519_seed_with_nonce"
   /\ Len(origin.args[1]) = KEY_LEN
   /\ Len(origin.args[2]) <= KEY_LEN) =>
    LET S1 == MixedSeed(origin.args[1], origin.args[2])
        pk == generate_keypair(S1).pkey
    IN /\ Made
       /\ K.secret_seed = Some(S1)
       /\ K.public_key = pk
       /\ K.secret_key = Some(S1 \o pk)

\* C4: from_raw_ed25519_seed_with_nonce with a 32-byte seed and a nonce longer
\* than 32 bytes returns an error result (NonceTooLong): no Keypair, no panic.
C4_NonceTooLongIsAnError ==
  (/\ origin.op = "from_raw_ed25519_seed_with_nonce"
   /\ Len(origin.args[1]) = KEY_LEN
   /\ Len(origin.args[2]) > KEY_LEN) =>
    /\ origin.res.kind = "Err"
    /\ ~Made

SingleByteDiff(a, b) ==
  /\ Len(a) = Len(b)
  /\ Cardinality({i \in 1..Len(a) : a[i] # b[i]}) = 1

LengthErrors == {"secret_key length is invalid", "public_key length is invalid"}

\* C7: from_raw_ed25519_seed, from_raw_ed25519_seed_with_nonce and
\* new_from_public_key given a seed or public key that is not exactly 32
\* bytes return the length error before any nonce mixing or derivation, and
\* no Keypair.
C7_LengthRejectedFirst ==
  (/\ origin.op \in {"from_raw_ed25519_seed", "from_raw_ed25519_seed_with_nonce",
                     "new_from_public_key"}
   /\ Len(origin.args[1]) # KEY_LEN) =>
    /\ origin.res.kind = "Err"
    /\ origin.res.err \in LengthErrors
    /\ origin.res.calls = <<>>
    /\ ~Made

\* C7 witness: the additive-nonce factory was given a 33-byte seed together
\* with a nonce, and returned the error.
C7_Witness ==
  /\ origin.op = "from_raw_ed25519_seed_with_nonce"
  /\ Len(origin.args[1]) = KEY_LEN + 1
  /\ Len(origin.args[2]) > 0
  /\ origin.res.kind = "Err"
  /\ ret = origin

\* C8: on a Keypair made by a public-key factory sign returns an error and no
\* signature and secret_key() fails with "no secret_key available"; on a
\* Keypair made by any secret factory sign returns a 64-byte signature and
\* secret_key() returns a text.
C8_SecretAccessors ==
  Made =>
    /\ (ret.op = "sign" /\ origin.op \in PublicFactories) =>
         (ret.res.kind = "Err" /\ ret.res.val = <<>>)
    /\ (ret.op = "secret_key" /\ origin.op \in PublicFactories) =>
         (ret.res.kind = "Err" /\ ret.res.err = "no secret_key available")
    /\ (ret.op = "sign" /\ origin.op \in SecretFactories) =>
         (ret.res.kind = "Ok" /\ Len(ret.res.val) = SIGNATURE_LENGTH)
    /\ (ret.op = "secret_key" /\ origin.op \in SecretFactories) =>
         (ret.res.kind = "Ok" /\ Len(ret.res.val) > 0)

\* C8 witness: secret_key() was called on a Keypair made by from_public_key
\* and returned the error.
C8_Witness ==
  /\ Made
  /\ origin.op = "from_public_key"
  /\ ret.op = "secret_key"
  /\ ret.res.kind = "Err"

\* C9: for every 32-byte seed p, from_secret_key(encode(p)) succeeds, its
\* raw_secret_key() is p and its secret_key() is the text it was built from;
\* and from_raw_ed25519_seed(p).raw_secret_key() is p.
C9_SeedRoundTrip ==
  \A p \in Seeds32 :
    /\ (origin.op = "from_secret_key"
        /\ origin.args = <<encode_ed25519_secret_seed(p)>>) =>
         /\ Made
         /\ origin.res.kind = "Ok"
         /\ ret.op = "raw_secret_key" => ret.res = Ok(Some(p))
         /\ ret.op = "secret_key" => ret.res = Ok(origin.args[1])
    /\ (origin.op = "from_raw_ed25519_seed" /\ origin.args = <<p>>) =>
         /\ Made
         /\ ret.op = "raw_secret_key" => ret.res = Ok(Some(p))

\* C9 witness: secret_key() was called on the Keypair built from the seed text
\* of the tests and returned that text.
C9_Witness ==
  /\ Made
  /\ origin.op = "from_secret_key"
  /\ origin.args = <<TestSeedText>>
  /\ ret.op = "secret_key"
  /\ ret.res = Ok(TestSeedText)

\* the valid encodings the model tries: of 32-byte seeds, of 32-byte public keys
ValidSeedTexts == {encode_ed25519_secret_seed(p) : p \in Seeds32}
ValidPkTexts ==
  {encode_ed25519_public_key(q) :
     q \in Seeds32 \cup {generate_keypair(s).pkey : s \in Seeds32} \cup {TestPk}}

\* C10: from_public_key given a validly encoded secret seed fails with
\* InvalidVersion and returns no Keypair; from_secret_key and
\* from_secret_master_key given a validly encoded public key fail likewise.
C10_VersionBytesNotInterchangeable ==
  /\ (origin.op = "from_public_key" /\ origin.args[1] \in ValidSeedTexts) =>
       (origin.res.kind = "Err" /\ origin.res.err = "InvalidVersion" /\ ~Made)
  /\ (origin.op \in {"from_secret_key", "from_secret_master_key"}
      /\ origin.args[1] \in ValidPkTexts) =>
       (origin.res.kind = "Err" /\ origin.res.err = "InvalidVersion" /\ ~Made)

\* C10 witness: from_public_key was given the seed text of the tests and
\* returned the version error.
C10_Witness ==
  /\ origin.op = "from_public_key"
  /\ origin.args = <<TestSeedText>>
  /\ origin.res.err = "InvalidVersion"
  /\ ~Made

\* the seed of the hashed-nonce derivation, as the specification states it:
\* the first 32 bytes of SHA-512 of the seed followed by the nonce's bytes
HashedSeed(S, n) == SubSeq(Sha512(S \o n), 1, KEY_LEN)

\* C11: from_secret_master_key given a valid seed text that decodes to S and a
\* nonce text n of any length returns a secret-holding Keypair whose
\* secret_seed is the first 32 bytes of SHA-512(S followed by n) and whose
\* public_key is derived from that seed; it is what from_raw_ed25519_seed
\* returns for that seed, and the additive nonce mixing takes no part in it.
C11_HashedNonceKeypair ==
  \A S \in Seeds32 :
    (/\ origin.op = "from_secret_master_key"
     /\ origin.args[1] = encode_ed25519_secret_seed(S)) =>
      LET H == HashedSeed(S, origin.args[2])
          pk == generate_keypair(H).pkey
      IN /\ Made
         /\ can_sign(K)
         /\ K.secret_seed = Some(H)
         /\ K.public_key = pk
         /\ K.secret_key = Some(H \o pk)
         /\ K = from_raw_ed25519_seed(H).val
         /\ origin.res.calls = <<"Sha512", "generate_keypair">>
         /\ ret.op = "raw_secret_key" => ret.res = Ok(Some(H))

\* C11 witness: from_secret_master_key was given the seed text of the tests and
\* a nonce text longer than 32 bytes, and raw_secret_key() of the Keypair it
\* returned is the hashed seed.
C11_Witness ==
  /\ Made
  /\ origin.op = "from_secret_master_key"
  /\ origin.args[1] = TestSeedText
  /\ Len(origin.args[2]) > KEY_LEN
  /\ ret.op = "raw_secret_key"
  /\ ret.res = Ok(Some(HashedSeed(TestSeed, origin.args[2])))

====
